---- MODULE Spec2Model ----
(***************************************************************************)
(* Model of the document-extraction pipeline of fn-api-dynamic:            *)
(*   server/services/pdfProcessor.ts  (PDFProcessor: rasterization and the *)
(*                                     shared scratch directory)           *)
(*   server/services/llmService.ts    (LLMService: per-page LLM calls,     *)
(*                                     prompt construction, result merge)  *)
(* Every extraction request r is one sequential async control flow; a step *)
(* of the model is the code between two awaits.                            *)
(***************************************************************************)
EXTENDS Integers, Sequences, FiniteSets, TLC

\* ------------------------------------------------------------------ bounds
\* Largest page count of a source PDF.
MaxPages == 3
\* Largest value of the millisecond clock read by Date.now().
MaxClock == 1
\* Number of extraction requests that may be in flight at once.
NumRequests == 2

Requests == 1..NumRequests

\* ------------------------------------------------------------- JS values
\* A JavaScript/JSON value is a record tagged by its typeof-like shape.
JUndef == [t |-> "undefined"]
JNull == [t |-> "null"]
JNum(n) == [t |-> "number", n |-> n]
JBool(b) == [t |-> "boolean", b |-> b]
\* A string is a sequence of atoms (see below); "" is the empty sequence.
JStr(s) == [t |-> "string", s |-> s]
JArr(a) == [t |-> "array", a |-> a]
\* An object is a function from its own keys to values.
JObj(o) == [t |-> "object", o |-> o]
\* A thrown Error object.
JError(name, message) == [t |-> "error", name |-> name, message |-> message]

\* JavaScript truthiness: undefined, null, false, 0 and "" are falsy.
Truthy(v) ==
    CASE v.t = "undefined" -> FALSE
      [] v.t = "null" -> FALSE
      [] v.t = "boolean" -> v.b
      [] v.t = "number" -> v.n # 0
      [] v.t = "string" -> v.s # <<>>
      [] OTHER -> TRUE

\* a || b
Or(a, b) == IF Truthy(a) THEN a ELSE b

\* obj[key]: undefined when the key is absent (or obj has no own keys).
Get(obj, key) ==
    IF obj.t = "object" /\ key \in DOMAIN obj.o THEN obj.o[key] ELSE JUndef

\* Object.keys(obj)
Keys(obj) == IF obj.t = "object" THEN DOMAIN obj.o ELSE {}

\* ---------------------------------------------------------------- strings
\* Text is a sequence of atoms. A literal atom is a fixed piece of text; a
\* json atom is the JSON text that denotes a value; a num atom is the decimal
\* rendering of an integer. Concatenation of text is \o.
Lit(s) == <<[lit |-> s]>>
NumToString(n) == <<[num |-> n]>>
\* JSON.stringify(v, null, 2)
JSONStringify(v) == <<[json |-> v]>>

\* `${v}`: template-literal coercion of a value to text.
StringOf(v) ==
    CASE v.t = "string" -> v.s
      [] v.t = "number" -> NumToString(v.n)
      [] OTHER -> <<[tostring |-> v]>>

\* JSON.parse(text): the denoted value when the text is one JSON text,
\* otherwise a SyntaxError is thrown.
JSONParse(text) ==
    IF Len(text) = 1 /\ "json" \in DOMAIN text[1]
    THEN [threw |-> FALSE, value |-> text[1].json]
    ELSE [threw |-> TRUE, error |-> JError("SyntaxError", Lit("Unexpected token"))]

\* A join that puts nothing between the parts.
RECURSIVE JoinConcat(_, _)
JoinConcat(parts, sep) ==
    IF Len(parts) = 0 THEN <<>> ELSE parts[1] \o JoinConcat(Tail(parts), sep)

\* parts.join(sep)
RECURSIVE Join(_, _)
Join(parts, sep) ==
    IF Len(parts) = 0 THEN <<>>
    ELSE IF Len(parts) = 1 THEN parts[1]
    ELSE parts[1] \o sep \o Join(Tail(parts), sep)

\* haystack.includes(needle)
Includes(haystack, needle) ==
    \E i \in 1..(Len(haystack) + 1) :
        /\ i + Len(needle) - 1 <= Len(haystack)
        /\ SubSeq(haystack, i, i + Len(needle) - 1) = needle

\* text.toLowerCase(), atom by atom, over the literals the model uses.
LowerCaseOf(s) ==
    CASE s = "PDF" -> "pdf"
      [] s = "Pdf" -> "pdf"
      [] s = "APPLICATION/PDF" -> "application/pdf"
      [] s = "Application/Pdf" -> "application/pdf"
      [] s = "IMAGE/PNG" -> "image/png"
      [] s = "DATE" -> "date"
      [] s = "Multiple_Choice" -> "multiple_choice"
      [] s = "GET" -> "get"
      [] s = "POST" -> "post"
      [] s = "PUT" -> "put"
      [] s = "PATCH" -> "patch"
      [] s = "DELETE" -> "delete"
      [] OTHER -> s

ToLowerCase(text) ==
    [i \in 1..Len(text) |->
        IF "lit" \in DOMAIN text[i] THEN [lit |-> LowerCaseOf(text[i].lit)]
        ELSE text[i]]

\* ------------------------------------------------- LLMService: callLLM
\* The outcome of the HTTP POST /api/generate: a transport failure (network
\* error, timeout, non-2xx status: axios rejects), or a response body with
\* the two answer fields.
TransportFailure == [kind |-> "transport"]
NoResponse == [kind |-> "none"]
ResponseBody(thinking, response) ==
    [kind |-> "body", thinking |-> thinking, response |-> response]

\* A callLLM that prefers `response` to `thinking`.
callLLMPrefersResponse(http) ==
    IF http.kind = "transport"
    THEN [threw |-> TRUE, error |-> JError("AxiosError", Lit("Request failed"))]
    ELSE LET llmResponse == Or(http.response, http.thinking)
         IN IF ~Truthy(llmResponse)
            THEN [threw |-> TRUE,
                  error |-> JError("Error",
                      Lit("No response or thinking field found in LLM output"))]
            ELSE [threw |-> FALSE, value |-> llmResponse]

\* callLLM, after the POST has settled with `http`: the answer text, or the
\* error thrown.
callLLM(http) ==
    IF http.kind = "transport"
    THEN [threw |-> TRUE, error |-> JError("AxiosError", Lit("Request failed"))]
    ELSE LET llmResponse == Or(http.thinking, http.response)
         IN IF ~Truthy(llmResponse)
            THEN [threw |-> TRUE,
                  error |-> JError("Error",
                      Lit("No response or thinking field found in LLM output"))]
            ELSE [threw |-> FALSE, value |-> llmResponse]

\* The images argument processSinglePage passes to callLLM.
PageImages(page) == <<page.imageBase64>>

\* --------------------------------------- LLMService: buildExtractionPrompt
\* Metadata keys of the form `<field>[].<child>`, split at the child prefix.
ChildPathTable ==
    { [key |-> "items[].name", field |-> "items", child |-> "name"],
      [key |-> "items[].due", field |-> "items", child |-> "due"] }

\* metaKey.startsWith(`${fieldName}[].`)
StartsWithChildPrefix(metaKey, fieldName) ==
    \E e \in ChildPathTable : e.key = metaKey /\ e.field = fieldName

\* metaKey.substring(childPrefix.length)
ChildNameOf(metaKey) ==
    (CHOOSE e \in ChildPathTable : e.key = metaKey).child

\* The format specification appended for a field type, "" when none applies.
\* The `array` rule exists for top-level fields only.
FormatSuffix(meta, topLevel) ==
    LET type == Get(meta, "type")
        choices == Get(meta, "choices")
        lower == IF type.t = "string" THEN ToLowerCase(type.s) ELSE <<>>
    IN IF ~Truthy(type) THEN <<>>
       ELSE IF lower = Lit("multiple_choice") /\ Truthy(choices)
                    /\ choices.t = "array"
       THEN Lit(" (return in one of the options: ")
                \o Join([i \in 1..Len(choices.a) |-> StringOf(choices.a[i])],
                        Lit(", "))
                \o Lit(")")
       ELSE IF lower = Lit("date") THEN Lit(" (return in format YYYY-MM-DD)")
       ELSE IF lower = Lit("datetime")
       THEN Lit(" (return in format YYYY-MM-DD HH:MM:SS)")
       ELSE IF lower = Lit("time") THEN Lit(" (return in format HH:MM:SS)")
       ELSE IF lower = Lit("boolean") THEN Lit(" (Return in Boolean)")
       ELSE IF topLevel /\ lower = Lit("array")
       THEN Lit(" (Return in array of value)")
       ELSE <<>>

\* `description` of one field: fieldMeta?.description || fallback, turned
\* into text with the format specification appended when one applies.
DescribeField(meta, fallback, topLevel) ==
    LET description == Or(Get(meta, "description"), fallback)
        suffix == FormatSuffix(meta, topLevel)
    IN IF suffix = <<>> THEN description
       ELSE JStr(StringOf(description) \o suffix)

\* The object schema built from the child metadata of an array_of_objects
\* field.
ChildObjectSchema(fieldName, metadata) ==
    LET childKeys ==
            {k \in Keys(metadata) : StartsWithChildPrefix(k, fieldName)}
        keyOf(c) == CHOOSE k \in childKeys : ChildNameOf(k) = c
    IN JObj([c \in {ChildNameOf(k) : k \in childKeys} |->
                DescribeField(Get(metadata, keyOf(c)), JStr(Lit(c)), FALSE)])

\* enhancedSchema: the expected schema with descriptions as values.
EnhancedSchema(expectedSchema, metadata) ==
    IF Truthy(metadata) /\ Keys(metadata) # {}
    THEN JObj([fieldName \in Keys(expectedSchema) |->
            LET value == Get(expectedSchema, fieldName)
                fieldMeta == Get(metadata, fieldName)
                objectSchema == ChildObjectSchema(fieldName, metadata)
            IN IF /\ Get(fieldMeta, "type") = JStr(Lit("array_of_objects"))
                  /\ value.t = "array"
                  /\ Len(value.a) > 0
               THEN IF Keys(objectSchema) # {} THEN JArr(<<objectSchema>>)
                    ELSE value
               ELSE DescribeField(fieldMeta, value, TRUE)])
    ELSE expectedSchema

Preamble ==
    Lit("You are a document extraction assistant. Extract information from the provided document according to the specified schema.")

Instructions ==
    Lit("\n\nInstructions: ... Return the extracted data as JSON:")

\* buildExtractionPrompt(document, expectedSchema, metadata, documentType)
buildExtractionPrompt(document, expectedSchema, metadata, documentType) ==
    Preamble
      \o (IF Truthy(documentType)
          THEN Lit("\n\nDocument Type: ") \o StringOf(documentType)
          ELSE <<>>)
      \o Lit("\n\nExpected Output Schema (field values show what to extract):\n")
      \o JSONStringify(EnhancedSchema(expectedSchema, metadata))
      \o Instructions

\* ------------------------------------------- LLMService: processSinglePage
\* The sentence that states the position of a page in the document.
PagePositionText(pageNumber, totalPages) ==
    Lit("\n\nThis is page ") \o NumToString(pageNumber) \o Lit(" of ")
        \o NumToString(totalPages) \o Lit(" in the PDF document.")

\* contextInfo
ContextInfo(previousPagesContext) ==
    IF Len(previousPagesContext) > 0
    THEN Lit("\n\nContext from previous pages:\n")
            \o Join(previousPagesContext, Lit("\n\n"))
    ELSE <<>>

\* enhancedDocument
EnhancedDocument(page, totalPages, document, previousPagesContext) ==
    [document EXCEPT !.description =
        document.description \o PagePositionText(page.pageNumber, totalPages)
            \o ContextInfo(previousPagesContext)]

\* The prompt processSinglePage sends for a page.
PagePrompt(page, totalPages, document, expectedSchema, metadata, context, documentType) ==
    buildExtractionPrompt(
        EnhancedDocument(page, totalPages, document, context),
        expectedSchema, metadata, documentType)

\* The PageResult of the catch block.
FailedPageResult(page, parseError) ==
    JObj([page |-> JNum(page.pageNumber),
          error |-> JStr(Lit("Failed to parse response")),
          raw |-> parseError])

\* A processSinglePage whose catch block rethrows.
processSinglePageRethrows(page, http) ==
    LET llm == callLLM(http)
        parsed == JSONParse(llm.value.s)
    IN IF llm.threw THEN [threw |-> TRUE, error |-> llm.error]
       ELSE IF parsed.threw THEN [threw |-> TRUE, error |-> parsed.error]
       ELSE [threw |-> FALSE,
             value |-> JObj([page |-> JNum(page.pageNumber),
                             data |-> parsed.value])]

\* The try/catch of processSinglePage once the POST has settled with `http`:
\* the value returned, or the error that escapes to the caller.
processSinglePage(page, http) ==
    LET llm == callLLM(http)
        parsed == JSONParse(llm.value.s)
    IN IF llm.threw
       THEN [threw |-> FALSE, value |-> FailedPageResult(page, llm.error)]
       ELSE IF parsed.threw
       THEN [threw |-> FALSE, value |-> FailedPageResult(page, parsed.error)]
       ELSE [threw |-> FALSE,
             value |-> JObj([page |-> JNum(page.pageNumber),
                             data |-> parsed.value])]

\* The entry processAllPages adds to previousPagesContext for a page result.
ContextEntry(page, pageResult) ==
    Lit("Page ") \o NumToString(page.pageNumber) \o Lit(": ")
        \o JSONStringify(Get(pageResult, "data"))

\* previousPagesContext after the page result has been pushed.
PushContext(previousPagesContext, page, pageResult) ==
    IF Truthy(Get(pageResult, "data"))
    THEN Append(previousPagesContext, ContextEntry(page, pageResult))
    ELSE previousPagesContext

\* ----------------------------------------- LLMService: combinePageResults
\* pageResult.data || pageResult
PageData(pageResult) == Or(Get(pageResult, "data"), pageResult)

\* The test that admits pageData[key] into `values`.
IsCollected(v) == v.t # "undefined" /\ v.t # "null" /\ v # JStr(<<>>)

\* `values` for one schema key: the admitted pageData[key], in page order.
CollectValues(pageResults, key) ==
    SelectSeq([i \in 1..Len(pageResults) |-> Get(PageData(pageResults[i]), key)],
              IsCollected)

\* A flat() that splices nothing in.
FlatNone(values) == values

\* values.flat(): arrays are spliced in one level deep, other values kept.
RECURSIVE Flat(_)
Flat(values) ==
    IF Len(values) = 0 THEN <<>>
    ELSE (IF Head(values).t = "array" THEN Head(values).a ELSE <<Head(values)>>)
            \o Flat(Tail(values))

\* The property name of an array index.
IndexKey(i) ==
    CASE i = 0 -> "0" [] i = 1 -> "1" [] i = 2 -> "2" [] i = 3 -> "3"
      [] OTHER -> "4"

\* The own enumerable properties Object.assign copies from one source:
\* those of an object, the indexed elements of an array, the indexed pieces
\* of a string; a number or a boolean has none.
OwnProperties(v) ==
    CASE v.t = "object" -> v.o
      [] v.t = "array" ->
            [k \in {IndexKey(i - 1) : i \in 1..Len(v.a)} |->
                v.a[CHOOSE i \in 1..Len(v.a) : IndexKey(i - 1) = k]]
      [] v.t = "string" ->
            [k \in {IndexKey(i - 1) : i \in 1..Len(v.s)} |->
                JStr(<<v.s[CHOOSE i \in 1..Len(v.s) : IndexKey(i - 1) = k]>>)]
      [] OTHER -> <<>>

\* An assign in which the first source that has a property wins.
RECURSIVE ObjectAssignFirstWins(_)
ObjectAssignFirstWins(values) ==
    IF Len(values) = 0 THEN <<>>
    ELSE LET rest == ObjectAssignFirstWins(Tail(values))
             first == OwnProperties(Head(values))
         IN [k \in DOMAIN rest \cup DOMAIN first |->
                IF k \in DOMAIN first THEN first[k] ELSE rest[k]]

\* Object.assign({}, ...values): later sources overwrite earlier ones.
RECURSIVE ObjectAssign(_)
ObjectAssign(values) ==
    IF Len(values) = 0 THEN <<>>
    ELSE LET rest == ObjectAssign(SubSeq(values, 1, Len(values) - 1))
             last == OwnProperties(values[Len(values)])
         IN [k \in DOMAIN rest \cup DOMAIN last |->
                IF k \in DOMAIN last THEN last[k] ELSE rest[k]]

\* A dispatch whose scalar branches take the first value.
MergeValueFirst(values, expected) ==
    IF Len(values) = 0 THEN expected
    ELSE IF expected.t = "array" THEN JArr(Flat(values))
    ELSE IF expected.t = "object" THEN JObj(ObjectAssign(values))
    ELSE IF expected.t = "string"
    THEN JStr(Join([i \in 1..Len(values) |-> StringOf(values[i])], Lit(" ")))
    ELSE values[1]

\* combinedResult[key], dispatched on the shape of expectedSchema[key].
MergeValue(values, expected) ==
    IF Len(values) = 0 THEN expected
    ELSE IF expected.t = "array" THEN JArr(Flat(values))
    ELSE IF expected.t = "object" THEN JObj(ObjectAssign(values))
    ELSE IF expected.t = "string"
    THEN JStr(Join([i \in 1..Len(values) |-> StringOf(values[i])], Lit(" ")))
    ELSE IF expected.t = "number" THEN values[Len(values)]
    ELSE values[Len(values)]

\* A merge that also carries over the keys of the first page's data.
combinePageResultsAllKeys(pageResults, expectedSchema) ==
    IF Len(pageResults) = 0 THEN expectedSchema
    ELSE IF Len(pageResults) = 1 THEN PageData(pageResults[1])
    ELSE JObj([key \in Keys(expectedSchema) \cup Keys(PageData(pageResults[1]))
                        \cup {"_pageResults", "_totalPages"} |->
            IF key = "_pageResults" THEN JArr(pageResults)
            ELSE IF key = "_totalPages" THEN JNum(Len(pageResults))
            ELSE IF key \in Keys(expectedSchema)
            THEN MergeValue(CollectValues(pageResults, key), Get(expectedSchema, key))
            ELSE Get(PageData(pageResults[1]), key)])

\* A merge without the special case of the empty list.
combinePageResultsNoEmptyCase(pageResults, expectedSchema) ==
    IF Len(pageResults) = 1 THEN PageData(pageResults[1])
    ELSE JObj([key \in Keys(expectedSchema) \cup {"_pageResults", "_totalPages"} |->
            IF key = "_pageResults" THEN JArr(pageResults)
            ELSE IF key = "_totalPages" THEN JNum(Len(pageResults))
            ELSE MergeValue(CollectValues(pageResults, key),
                            Get(expectedSchema, key))])

\* combinePageResults(pageResults, expectedSchema)
combinePageResults(pageResults, expectedSchema) ==
    IF Len(pageResults) = 0 THEN expectedSchema
    ELSE IF Len(pageResults) = 1 THEN PageData(pageResults[1])
    ELSE JObj([key \in Keys(expectedSchema) \cup {"_pageResults", "_totalPages"} |->
            IF key = "_pageResults" THEN JArr(pageResults)
            ELSE IF key = "_totalPages" THEN JNum(Len(pageResults))
            ELSE MergeValue(CollectValues(pageResults, key),
                            Get(expectedSchema, key))])

\* ------------------------------------------------------------------ inputs
\* A source document's file data: whether it is the empty string, whether it
\* decodes as a PDF at all, how
\* many pages it has, and which of them (0: none) the converter cannot render.
FileDatas ==
    [corrupt : {FALSE}, empty : {FALSE}, numPages : 0..MaxPages, badPage : 0..MaxPages]
        \cup {[corrupt |-> TRUE, empty |-> e, numPages |-> 0, badPage |-> 0] : e \in BOOLEAN}

\* document.filetype: spellings of the two PDF types, an image type, and a
\* type that only resembles a PDF type.
Filetypes == {Lit("pdf"), Lit("Application/Pdf"), Lit("image/png"), Lit(".pdf")}

\* page.imageBase64 of page p.
PageImage(p) == <<[image |-> p]>>

DocumentOf(filedata, filetype) ==
    [filedata |-> filedata, filename |-> Lit("doc.pdf"), filetype |-> filetype,
     description |-> Lit("Quarterly invoice")]

\* Expected schemas: the example of the specification, and one whose keys
\* are also field names of a PageResult.
SchemaItems == JObj([items |-> JArr(<<>>), note |-> JStr(<<>>), count |-> JNum(0)])
SchemaPage == JObj([page |-> JNum(0), error |-> JStr(<<>>), note |-> JStr(<<>>)])

MetadataItems ==
    JObj([note |-> JObj([type |-> JStr(Lit("DATE")),
                         description |-> JStr(Lit("date of the note"))]),
          count |-> JObj([type |-> JStr(Lit("multiple_choice")),
                          choices |-> JArr(<<JStr(Lit("one")), JStr(Lit("two"))>>)])])

\* A schema with an array of objects, and the metadata the response builder
\* stores for its children (`items[].name`, `items[].due`): without an entry
\* for the array itself when that has no description, with one when it has.
SchemaOrders ==
    JObj([items |-> JArr(<<JObj([name |-> JStr(Lit("example string")),
                                 due |-> JStr(Lit("2024-01-01"))])>>),
          note |-> JStr(<<>>)])

MetadataChildren ==
    JObj(("items[].name" :> JObj([type |-> JStr(Lit("multiple_choice")),
                                  choices |-> JArr(<<JStr(Lit("one")), JStr(Lit("two"))>>)]))
         @@ ("items[].due" :> JObj([type |-> JStr(Lit("date"))])))

MetadataOrders ==
    JObj(MetadataChildren.o
         @@ ("items" :> JObj([type |-> JStr(Lit("array_of_objects")),
                              description |-> JStr(Lit("order lines"))])))

\* The extraction requests the model draws from.
ExtractionRequests ==
    { [expectedSchema |-> SchemaItems, metadata |-> JUndef, documentType |-> JUndef],
      [expectedSchema |-> SchemaPage, metadata |-> JUndef, documentType |-> JUndef],
      [expectedSchema |-> SchemaItems, metadata |-> MetadataItems,
       documentType |-> JStr(Lit("invoice"))],
      [expectedSchema |-> SchemaOrders, metadata |-> MetadataOrders,
       documentType |-> JUndef],
      [expectedSchema |-> SchemaOrders, metadata |-> MetadataChildren,
       documentType |-> JUndef] }

\* Answers of the LLM: JSON texts of two objects and of null, and a text that
\* is not JSON.
DataHello == JObj([items |-> JArr(<<JStr(Lit("x"))>>), note |-> JStr(Lit("hello")), count |-> JNum(1)])
DataWorld == JObj([items |-> JArr(<<JStr(Lit("y"))>>), note |-> JStr(Lit("world")), count |-> JNum(2)])
NotJSON == Lit("Sorry, I cannot read this page.")

HttpOutcomes ==
    {TransportFailure} \cup
    { ResponseBody(th, re) :
        th \in {JUndef, JStr(<<>>), JStr(JSONStringify(DataWorld))},
        re \in {JUndef, JStr(<<>>), JStr(JSONStringify(DataHello)),
                JStr(JSONStringify(JNull)), JStr(NotJSON)} }

\* An expected schema with a key of every shape the merge dispatches on.
SchemaShapes ==
    JObj([items |-> JArr(<<>>), info |-> JObj([a |-> JStr(<<>>)]),
          note |-> JStr(<<>>), count |-> JNum(0), flag |-> JBool(FALSE),
          nothing |-> JNull])

\* Page data for SchemaShapes: nested arrays and sub-objects, a key the schema
\* does not have, values whose shape differs from the schema's, values the
\* merge does not collect (null, ""), and missing keys.
DataFirst ==
    JObj([items |-> JArr(<<JStr(Lit("x"))>>),
          info |-> JObj([a |-> JStr(Lit("one")), b |-> JObj([c |-> JStr(Lit("deep"))])]),
          note |-> JStr(Lit("hello")), count |-> JNum(1), flag |-> JBool(TRUE),
          nothing |-> JStr(Lit("n")), extra |-> JStr(Lit("e"))])
DataSecond ==
    JObj([items |-> JArr(<<JArr(<<JStr(Lit("y"))>>), JStr(Lit("z"))>>),
          info |-> JObj([b |-> JObj([d |-> JStr(Lit("other"))]), e |-> JNull]),
          note |-> JNum(5), count |-> JNum(2), flag |-> JBool(FALSE),
          nothing |-> JNum(7)])
DataSparse ==
    JObj([items |-> JStr(Lit("solo")), info |-> JObj([a |-> JStr(Lit("three"))]),
          note |-> JStr(<<>>), count |-> JNull])

\* What a page of a direct merge carries: parsed data (an object, or the
\* number 0), or the error of a reply that did not parse.
MergeSchemas == {SchemaItems, SchemaPage, SchemaShapes}
MergeDatas == {DataHello, DataWorld, DataFirst, DataSecond, DataSparse, JNum(0)}
MergePageKinds == MergeDatas \cup {JSONParse(NotJSON).error}

\* The PageResult processSinglePage returns for page i with that outcome.
MergePageResult(i, kind) ==
    IF kind.t = "error" THEN FailedPageResult([pageNumber |-> i], kind)
    ELSE JObj([page |-> JNum(i), data |-> kind])

\* The lists of PageResults of up to MaxPages pages, numbered in page order.
MergePageResults ==
    UNION { { [i \in 1..n |-> MergePageResult(i, kinds[i])] :
                kinds \in [1..n -> MergePageKinds] } : n \in 0..MaxPages }

\* writeTempPDFFile: the path `temp-<ms>.pdf` of the temporary source PDF. A
\* file with a past timestamp is the orphan of an earlier run.
TempPdfPath(ms) == [name |-> "temp", ms |-> ms]
Leftovers == {TempPdfPath(-1)}

\* ------------------------------------------------- server: endpoint store
\* Management requests that can be in flight together.
NumClients == 2
Clients == 1..NumClients

\* The limits endpointSchema and predefinedRequestBodySchema state.
MinStatusCode == 100
MaxStatusCode == 599
MaxFiletypeLength == 10

ValidMethods == {Lit("GET"), Lit("POST"), Lit("PUT"), Lit("PATCH"), Lit("DELETE")}

\* value.startsWith('/')
StartsWithSlash(text) == Len(text) > 0 /\ text[1] = [lit |-> "/"]

\* The number of characters of a literal, over the literals the model uses.
LengthOf(s) ==
    CASE s = "pdf" -> 3
      [] s = "PDF" -> 3
      [] s = ".pdf" -> 4
      [] s = "image/png" -> 9
      [] s = "application/pdf" -> 15
      [] s = "Application/Pdf" -> 15
      [] OTHER -> 1

\* text.length
RECURSIVE TextLength(_)
TextLength(text) ==
    IF Len(text) = 0 THEN 0 ELSE LengthOf(Head(text).lit) + TextLength(Tail(text))

\* Joi.string().required(): a string, and not the empty one.
IsRequiredString(v) == v.t = "string" /\ v.s # <<>>

\* The path as the custom rule of endpointSchema returns it.
WithLeadingSlash(path) == IF StartsWithSlash(path) THEN path ELSE Lit("/") \o path

\* endpointSchema.validate(req.body, {stripUnknown: true}): an error, or the
\* validated value.
ValidateEndpoint(body) ==
    IF /\ IsRequiredString(body.name)
       /\ body.method.t = "string" /\ body.method.s \in ValidMethods
       /\ IsRequiredString(body.path)
       /\ IsRequiredString(body.responseBody)
       /\ body.statusCode.t = "number"
       /\ body.statusCode.n \in MinStatusCode..MaxStatusCode
    THEN [error |-> FALSE,
          value |-> [name |-> body.name.s, method |-> body.method.s,
                     path |-> WithLeadingSlash(body.path.s),
                     responseBody |-> body.responseBody.s,
                     statusCode |-> body.statusCode.n]]
    ELSE [error |-> TRUE]

\* predefinedRequestBodySchema.validate(req.body).error
RequestBodyError(body) ==
    ~ /\ IsRequiredString(body.description)
      /\ IsRequiredString(body.filedata)
      /\ IsRequiredString(body.fileurl)
      /\ IsRequiredString(body.filename)
      /\ IsRequiredString(body.filetype)
      /\ TextLength(body.filetype.s) <= MaxFiletypeLength

\* crypto.randomUUID(): the n-th identifier handed out.
Uuid(n) == [uuid |-> n]

\* {...value, id, createdAt}
NewEndpoint(value, id, createdAt) ==
    [id |-> id, createdAt |-> createdAt, name |-> value.name, method |-> value.method,
     path |-> value.path, responseBody |-> value.responseBody,
     statusCode |-> value.statusCode]

\* An update that stamps the endpoint anew.
UpdatedEndpointRestamped(value, id, old) == NewEndpoint(value, id, old.createdAt + 1)

\* updatedEndpoint: {...value, id: req.params.id, createdAt: endpoints[index].createdAt}
UpdatedEndpoint(value, id, old) == NewEndpoint(value, id, old.createdAt)

\* endpoints.findIndex(ep => ep.id === id): 0 stands for -1.
FindIndex(endpointList, id) ==
    IF \E i \in 1..Len(endpointList) : endpointList[i].id = id
    THEN CHOOSE i \in 1..Len(endpointList) :
            /\ endpointList[i].id = id
            /\ \A j \in 1..(i - 1) : endpointList[j].id # id
    ELSE 0

\* parseResponseBody(responseBody)
parseResponseBody(responseBody) ==
    LET parsed == JSONParse(responseBody)
    IN IF parsed.threw THEN JStr(responseBody) ELSE parsed.value

\* The routes loadDynamicRoutes registers for a list of endpoints, in order.
RoutesOf(endpointList) ==
    [i \in 1..Len(endpointList) |->
        [method |-> ToLowerCase(endpointList[i].method),
         routePath |-> WithLeadingSlash(endpointList[i].path),
         endpoint |-> endpointList[i]]]

\* The handler of a dynamic route.
RouteHandler(route, body) ==
    IF route.method # Lit("get") /\ RequestBodyError(body)
    THEN [status |-> 400, data |-> JObj([error |-> JStr(Lit("Validation failed"))])]
    ELSE [status |-> route.endpoint.statusCode,
          data |-> parseResponseBody(route.endpoint.responseBody)]

\* dynamicRouter(req, res, next): the first route of the table that matches
\* answers; with none the request falls through to a 404.
Dispatch(router, method, path, body) ==
    LET hits == {i \in 1..Len(router) :
                    router[i].method = ToLowerCase(method) /\ router[i].routePath = path}
    IN IF hits = {} THEN [status |-> 404, data |-> JUndef]
       ELSE RouteHandler(router[CHOOSE i \in hits : \A j \in hits : i <= j], body)

\* The endpoint the store holds at the start, created in the past.
SeedEndpoint ==
    [id |-> Uuid(0), createdAt |-> -1, name |-> Lit("seed"), method |-> Lit("POST"),
     path |-> Lit("/") \o Lit("s"),
     responseBody |-> JSONStringify(JObj([ok |-> JBool(TRUE)])), statusCode |-> 200]
MissingId == Uuid(-1)

\* Bodies of create and update requests: two valid ones (the second with a
\* path that lacks the leading slash) and one with a status code below 100.
BodyGetA ==
    [name |-> JStr(Lit("a")), method |-> JStr(Lit("GET")),
     path |-> JStr(Lit("/") \o Lit("a")), responseBody |-> JStr(Lit("plain text")),
     statusCode |-> JNum(200)]
BodyPostB ==
    [name |-> JStr(Lit("b")), method |-> JStr(Lit("POST")), path |-> JStr(Lit("b")),
     responseBody |-> JStr(JSONStringify(JObj([made |-> JBool(TRUE)]))),
     statusCode |-> JNum(201)]
BodyInvalid == [BodyGetA EXCEPT !.statusCode = JNum(99)]

ManagementRequests ==
    {[op |-> "create", id |-> MissingId, body |-> b] : b \in {BodyGetA, BodyPostB, BodyInvalid}}
    \cup {[op |-> "update", id |-> i, body |-> b] :
            i \in {Uuid(0), MissingId}, b \in {BodyPostB, BodyInvalid}}
    \cup {[op |-> o, id |-> i, body |-> BodyGetA] :
            o \in {"delete", "get"}, i \in {Uuid(0), MissingId}}

\* Bodies of requests to dynamic endpoints: complete ones with a filetype,
\* and one without a description.
RequestBodyOf(filetype) ==
    [description |-> JStr(Lit("Quarterly invoice")), filedata |-> JStr(Lit("JVBERi0=")),
     fileurl |-> JStr(Lit("https://example.com/doc")), filename |-> JStr(Lit("doc.pdf")),
     filetype |-> JStr(filetype)]
DynamicRequests ==
    {[method |-> Lit("POST"), path |-> SeedEndpoint.path, body |-> b] :
        b \in {RequestBodyOf(Lit("pdf")), RequestBodyOf(Lit("application/pdf")),
                [RequestBodyOf(Lit("pdf")) EXCEPT !.description = JUndef]}}
    \cup {[method |-> Lit("GET"), path |-> BodyGetA.path.s, body |-> RequestBodyOf(Lit("pdf"))]}

\* ------------------------------------------------------------------- state
VARIABLES
    now,                  \* Date.now()
    dirExists,            \* whether tempDir exists
    dir,                  \* the files in tempDir
    pc,                   \* where each request's control flow stands
    document,             \* request.document
    request,              \* expectedSchema, metadata, documentType
    tempPdfPath,          \* convertPDFToImages: tempPdfPath
    saveFilename,         \* createConverter: options.saveFilename
    pages,                \* extractAllPages: pages
    currentPageNumber,    \* extractAllPages: currentPageNumber
    toUnlink,             \* cleanupTempDirectory: files still to unlink
    converted,            \* what convertPDFToImages returned or threw
    pageResults,          \* processAllPages: pageResults
    previousPagesContext, \* processAllPages: previousPagesContext
    result,               \* what the entry call returned or threw
    created,              \* history: scratch files the call has created
    llmRequests,          \* history: the LLM requests issued
    llmReplies,           \* history: what callLLM gave for each request
    llmResponse,          \* history: how the latest POST settled
    file,                 \* data/endpoints.json: the stored endpoint list
    dynamicRouter,        \* the routes of the router `dynamicRouter` refers to
    nextUuid,             \* how many identifiers randomUUID has handed out
    mpc,                  \* where each management request stands
    mreq,                 \* the management request of each client
    endpoints,            \* the list readEndpoints gave the request
    toWrite,              \* the list the request passes to writeEndpoints
    response,             \* the answer to each management request
    dynResponse           \* history: the latest dynamic request and its answer

fsVars == <<now, dirExists, dir>>
rasterVars == <<tempPdfPath, saveFilename, pages, currentPageNumber, toUnlink, converted, created>>
llmVars == <<pageResults, previousPagesContext, llmRequests, llmReplies, llmResponse>>
extractionVars == <<fsVars, pc, document, request, rasterVars, llmVars, result>>
storeVars == <<file, dynamicRouter, nextUuid, mpc, mreq, endpoints, toWrite, response,
               dynResponse>>
vars == <<extractionVars, storeVars>>

NoAnswer == [status |-> 0]

\* The server after startServer: the routes of the stored list are loaded
\* and no request is in flight.
InitStore ==
    /\ file = <<SeedEndpoint>>
    /\ dynamicRouter = RoutesOf(<<SeedEndpoint>>)
    /\ nextUuid = 1
    /\ mpc = [m \in Clients |-> "idle"]
    /\ mreq = [m \in Clients |-> [op |-> "get", id |-> MissingId, body |-> BodyGetA]]
    /\ endpoints = [m \in Clients |-> <<>>]
    /\ toWrite = [m \in Clients |-> <<>>]
    /\ response = [m \in Clients |-> NoAnswer]
    /\ dynResponse = NoAnswer

NoPath == [name |-> "", ms |-> 0]
NoResult == [state |-> "pending"]
Returned(v) == [state |-> "returned", value |-> v]
Threw(message) == [state |-> "threw", message |-> message]

Init ==
    /\ now = 0
    /\ dirExists \in BOOLEAN
    /\ dir \in (IF dirExists THEN SUBSET Leftovers ELSE {{}})
    /\ pc = [r \in Requests |-> "idle"]
    /\ document = [r \in Requests |-> DocumentOf([corrupt |-> FALSE, empty |-> FALSE, numPages |-> 0, badPage |-> 0], Lit("pdf"))]
    /\ request = [r \in Requests |->
            [expectedSchema |-> SchemaItems, metadata |-> JUndef, documentType |-> JUndef]]
    /\ tempPdfPath = [r \in Requests |-> NoPath]
    /\ saveFilename = [r \in Requests |-> NoPath]
    /\ pages = [r \in Requests |-> <<>>]
    /\ currentPageNumber = [r \in Requests |-> 1]
    /\ toUnlink = [r \in Requests |-> {}]
    /\ converted = [r \in Requests |-> NoResult]
    /\ pageResults = [r \in Requests |-> <<>>]
    /\ previousPagesContext = [r \in Requests |-> <<>>]
    /\ result = [r \in Requests |-> NoResult]
    /\ created = [r \in Requests |-> {}]
    /\ llmRequests = [r \in Requests |-> <<>>]
    /\ llmReplies = [r \in Requests |-> <<>>]
    /\ llmResponse = [r \in Requests |-> NoResponse]
    /\ InitStore

\* A direct call combinePageResults(pageResults, expectedSchema) is pending.
InitMerge ==
    /\ now = 0
    /\ dirExists = FALSE
    /\ dir = {}
    /\ pc = [r \in Requests |-> IF r = 1 THEN "combinePageResults" ELSE "idle"]
    /\ document = [r \in Requests |-> DocumentOf([corrupt |-> FALSE, empty |-> FALSE, numPages |-> 0, badPage |-> 0], Lit("pdf"))]
    /\ \E schema \in MergeSchemas :
            request = [r \in Requests |->
                [expectedSchema |-> IF r = 1 THEN schema ELSE SchemaItems,
                 metadata |-> JUndef, documentType |-> JUndef]]
    /\ tempPdfPath = [r \in Requests |-> NoPath]
    /\ saveFilename = [r \in Requests |-> NoPath]
    /\ pages = [r \in Requests |-> <<>>]
    /\ currentPageNumber = [r \in Requests |-> 1]
    /\ toUnlink = [r \in Requests |-> {}]
    /\ converted = [r \in Requests |-> NoResult]
    /\ \E prs \in MergePageResults :
            pageResults = [r \in Requests |-> IF r = 1 THEN prs ELSE <<>>]
    /\ previousPagesContext = [r \in Requests |-> <<>>]
    /\ result = [r \in Requests |-> NoResult]
    /\ created = [r \in Requests |-> {}]
    /\ llmRequests = [r \in Requests |-> <<>>]
    /\ llmReplies = [r \in Requests |-> <<>>]
    /\ llmResponse = [r \in Requests |-> NoResponse]
    /\ InitStore

\* ------------------------------------------------------------ PDFProcessor
\* What the pdf2pic converter does when asked for a page: it yields the
\* page's base64 image, yields a result without base64, or throws. A source
\* that does not decode as a PDF makes every call throw; a page past the end
\* or a page that cannot be rendered throws or yields nothing.
ConverterOutcomes(filedata, pageNumber) ==
    IF filedata.corrupt THEN {"throws"}
    ELSE IF pageNumber <= filedata.numPages /\ pageNumber # filedata.badPage
    THEN {"base64"}
    ELSE {"throws", "empty"}

\* extractSinglePage(converter, pageNumber), given the converter's outcome:
\* the page, or null.
extractSinglePage(pageNumber, outcome) ==
    IF outcome = "base64"
    THEN [null |-> FALSE,
          page |-> [pageNumber |-> pageNumber, imageBase64 |-> PageImage(pageNumber)]]
    ELSE [null |-> TRUE]

\* createConverter: options.saveFilename (`page-<ms>`).
SaveFilenameAt(ms) == [name |-> "page", ms |-> ms]

\* The files cleanupTempDirectory unlinks: all that readdir lists.
FilesToUnlink(listing) == listing

\* A direct call convertPDFToImages(base64PDF).
ConvertPDFToImages(r) ==
    /\ pc[r] = "idle"
    /\ \E fd \in FileDatas :
            document' = [document EXCEPT ![r] = DocumentOf(fd, Lit("pdf"))]
    /\ pc' = [pc EXCEPT ![r] = "ensureTempDirectory"]
    /\ UNCHANGED <<fsVars, request, rasterVars, llmVars, result>>
    /\ UNCHANGED storeVars

\* ensureTempDirectory resolves (or mkdir rejects); on success
\* writeTempPDFFile computes the path and issues the write.
EnsureTempDirectory(r) ==
    /\ pc[r] = "ensureTempDirectory"
    /\ \/ /\ dirExists' = TRUE
          /\ tempPdfPath' = [tempPdfPath EXCEPT ![r] = TempPdfPath(now)]
          /\ pc' = [pc EXCEPT ![r] = "writeTempPDFFile"]
          /\ UNCHANGED converted
       \/ /\ ~dirExists
          /\ converted' = [converted EXCEPT ![r] = Threw(Lit("EACCES: mkdir"))]
          /\ pc' = [pc EXCEPT ![r] = "convertThrew"]
          /\ UNCHANGED <<dirExists, tempPdfPath>>
    /\ UNCHANGED <<now, dir, document, request, saveFilename, pages,
                   currentPageNumber, toUnlink, created, llmVars, result>>
    /\ UNCHANGED storeVars

\* fs.writeFile settles. On success the try block is entered: the converter
\* is created and the first page requested. A rejected write (which may have
\* created the file already) leaves convertPDFToImages before its try.
WriteTempPDFFile(r) ==
    /\ pc[r] = "writeTempPDFFile"
    /\ \/ /\ dir' = dir \cup {tempPdfPath[r]}
          /\ created' = [created EXCEPT ![r] = @ \cup {tempPdfPath[r]}]
          /\ saveFilename' = [saveFilename EXCEPT ![r] = SaveFilenameAt(now)]
          /\ pc' = [pc EXCEPT ![r] = "extractSinglePage"]
          /\ UNCHANGED converted
       \/ /\ \E partial \in BOOLEAN :
                /\ dir' = IF partial THEN dir \cup {tempPdfPath[r]} ELSE dir
                /\ created' = [created EXCEPT ![r] =
                        IF partial THEN @ \cup {tempPdfPath[r]} ELSE @]
          /\ converted' = [converted EXCEPT ![r] = Threw(Lit("ENOSPC: write"))]
          /\ pc' = [pc EXCEPT ![r] = "convertThrew"]
          /\ UNCHANGED saveFilename
    /\ UNCHANGED <<now, dirExists, document, request, tempPdfPath, pages,
                   currentPageNumber, toUnlink, llmVars, result>>
    /\ UNCHANGED storeVars

\* A loop that skips a page the converter fails on and goes on to the next
\* one, up to the document's last page.
ExtractSinglePageSkipping(r) ==
    /\ pc[r] = "extractSinglePage"
    /\ \E outcome \in ConverterOutcomes(document[r].filedata, currentPageNumber[r]) :
        LET page == extractSinglePage(currentPageNumber[r], outcome)
        IN IF ~page.null
           THEN /\ pages' = [pages EXCEPT ![r] = Append(@, page.page)]
                /\ currentPageNumber' = [currentPageNumber EXCEPT ![r] = @ + 1]
                /\ pc' = pc
           ELSE IF currentPageNumber[r] < document[r].filedata.numPages
           THEN /\ currentPageNumber' = [currentPageNumber EXCEPT ![r] = @ + 1]
                /\ UNCHANGED <<pages, pc>>
           ELSE /\ pc' = [pc EXCEPT ![r] = "cleanupUnlink"]
                /\ UNCHANGED <<pages, currentPageNumber>>
    /\ UNCHANGED <<fsVars, document, request, tempPdfPath, saveFilename,
                   toUnlink, converted, created, llmVars, result>>
    /\ UNCHANGED storeVars

\* One round of the loop of extractAllPages: the converter settles for
\* currentPageNumber. A page is pushed and the next one requested; null ends
\* the loop, extractAllPages returns, and the finally block starts cleanup.
ExtractSinglePage(r) ==
    /\ pc[r] = "extractSinglePage"
    /\ \E outcome \in ConverterOutcomes(document[r].filedata, currentPageNumber[r]) :
        LET page == extractSinglePage(currentPageNumber[r], outcome)
        IN IF ~page.null
           THEN /\ pages' = [pages EXCEPT ![r] = Append(@, page.page)]
                /\ currentPageNumber' = [currentPageNumber EXCEPT ![r] = @ + 1]
                /\ pc' = pc
           ELSE /\ pc' = [pc EXCEPT ![r] = "cleanupUnlink"]
                /\ UNCHANGED <<pages, currentPageNumber>>
    /\ UNCHANGED <<fsVars, document, request, tempPdfPath, saveFilename,
                   toUnlink, converted, created, llmVars, result>>
    /\ UNCHANGED storeVars

\* cleanup: fs.unlink(tempPdfPath) settles (a failure is logged), and
\* cleanupTempDirectory calls readdir.
CleanupUnlink(r) ==
    /\ pc[r] = "cleanupUnlink"
    /\ dir' = dir \ {tempPdfPath[r]}
    /\ pc' = [pc EXCEPT ![r] = "cleanupReaddir"]
    /\ UNCHANGED <<now, dirExists, document, request, rasterVars, llmVars, result>>
    /\ UNCHANGED storeVars

\* readdir settles and an unlink is issued for every file listed.
CleanupReaddir(r) ==
    /\ pc[r] = "cleanupReaddir"
    /\ toUnlink' = [toUnlink EXCEPT ![r] = FilesToUnlink(dir)]
    /\ pc' = [pc EXCEPT ![r] = "cleanupUnlinkFiles"]
    /\ UNCHANGED <<fsVars, document, request, tempPdfPath, saveFilename, pages,
                   currentPageNumber, converted, created, llmVars, result>>
    /\ UNCHANGED storeVars

\* One of the issued unlinks settles (a failure is ignored).
CleanupUnlinkFile(r) ==
    /\ pc[r] = "cleanupUnlinkFiles"
    /\ \E f \in toUnlink[r] :
        /\ dir' = dir \ {f}
        /\ toUnlink' = [toUnlink EXCEPT ![r] = @ \ {f}]
    /\ UNCHANGED <<now, dirExists, pc, document, request, tempPdfPath,
                   saveFilename, pages, currentPageNumber, converted, created,
                   llmVars, result>>
    /\ UNCHANGED storeVars

\* Promise.all resolves; convertPDFToImages returns the pages.
CleanupDone(r) ==
    /\ pc[r] = "cleanupUnlinkFiles"
    /\ toUnlink[r] = {}
    /\ converted' = [converted EXCEPT ![r] = Returned(pages[r])]
    /\ pc' = [pc EXCEPT ![r] = "converted"]
    /\ UNCHANGED <<fsVars, document, request, tempPdfPath, saveFilename, pages,
                   currentPageNumber, toUnlink, created, llmVars, result>>
    /\ UNCHANGED storeVars

\* A millisecond passes.
Tick ==
    /\ now < MaxClock
    /\ now' = now + 1
    /\ UNCHANGED <<dirExists, dir, pc, document, request, rasterVars, llmVars, result>>
    /\ UNCHANGED storeVars

\* -------------------------------------------------------------- LLMService
\* A test that compares the filetype as it is spelled.
isPDFCaseSensitive(filetype) ==
    filetype = Lit("pdf") \/ filetype = Lit("application/pdf")

\* isPDF(filetype)
isPDF(filetype) ==
    LET normalizedType == ToLowerCase(filetype)
    IN normalizedType = Lit("pdf") \/ normalizedType = Lit("application/pdf")

\* The images argument extractFromImage passes to callLLM.
ImageArgument(doc) == IF ~doc.filedata.empty THEN <<doc.filedata>> ELSE JUndef

\* An extractFromImage that returns the parsed reply or the reply text.
extractFromImageReturnsText(http) ==
    LET llm == callLLM(http)
        parsed == JSONParse(llm.value.s)
    IN IF llm.threw THEN [threw |-> FALSE, value |-> JStr(llm.error.message)]
       ELSE IF parsed.threw THEN [threw |-> FALSE, value |-> llm.value]
       ELSE [threw |-> FALSE, value |-> parsed.value]

\* The nested try/catch of extractFromImage once the POST has settled with
\* `http`: the value returned, or the error thrown to the caller.
extractFromImage(http) ==
    LET llm == callLLM(http)
        parsed == JSONParse(llm.value.s)
    IN IF llm.threw
       THEN [threw |-> TRUE,
             error |-> JError("Error",
                    Lit("Image extraction failed: ") \o llm.error.message)]
       ELSE IF parsed.threw
       THEN [threw |-> FALSE,
             value |-> JObj([error |-> JStr(Lit("Failed to parse LLM response as JSON")),
                             raw |-> llm.value])]
       ELSE [threw |-> FALSE, value |-> parsed.value]

\* extractDocumentData(request): for a PDF document extractFromPDF calls
\* convertPDFToImages; for any other document extractFromImage builds the
\* prompt and callLLM issues the POST.
ExtractDocumentData(r) ==
    /\ pc[r] = "idle"
    /\ \E fd \in FileDatas, ft \in Filetypes, req \in ExtractionRequests :
        /\ document' = [document EXCEPT ![r] = DocumentOf(fd, ft)]
        /\ request' = [request EXCEPT ![r] = req]
        /\ IF isPDF(ft)
           THEN /\ pc' = [pc EXCEPT ![r] = "ensureTempDirectory"]
                /\ UNCHANGED llmRequests
           ELSE /\ pc' = [pc EXCEPT ![r] = "extractFromImage"]
                /\ llmRequests' = [llmRequests EXCEPT ![r] = Append(@,
                        [prompt |-> buildExtractionPrompt(DocumentOf(fd, ft),
                                        req.expectedSchema, req.metadata, req.documentType),
                         images |-> ImageArgument(DocumentOf(fd, ft))])]
    /\ UNCHANGED <<fsVars, rasterVars, pageResults, previousPagesContext,
                   llmReplies, llmResponse, result>>
    /\ UNCHANGED storeVars

\* extractFromImage: the POST settles; the parsed reply or {error, raw} is
\* returned, or the failure of the call is rethrown.
ExtractFromImageReply(r) ==
    /\ pc[r] = "extractFromImage"
    /\ \E http \in HttpOutcomes :
        LET outcome == extractFromImage(http)
        IN /\ llmReplies' = [llmReplies EXCEPT ![r] = Append(@, callLLM(http))]
           /\ llmResponse' = [llmResponse EXCEPT ![r] = http]
           /\ result' = [result EXCEPT ![r] =
                    IF outcome.threw THEN Threw(outcome.error.message)
                    ELSE Returned(outcome.value)]
    /\ pc' = [pc EXCEPT ![r] = "done"]
    /\ UNCHANGED <<fsVars, document, request, rasterVars, pageResults,
                   previousPagesContext, llmRequests>>
    /\ UNCHANGED storeVars

\* extractFromPDF: convertPDFToImages threw; the catch block rethrows.
ExtractFromPDFCatch(r) ==
    /\ pc[r] = "convertThrew"
    /\ result' = [result EXCEPT ![r] =
            Threw(Lit("PDF extraction failed: ") \o converted[r].message)]
    /\ pc' = [pc EXCEPT ![r] = "done"]
    /\ UNCHANGED <<fsVars, document, request, rasterVars, llmVars>>
    /\ UNCHANGED storeVars

\* A loop that advances only past pages that yielded data.
NextPageAfterData(r) ==
    pages[r][Len(SelectSeq(pageResults[r], LAMBDA pr : "data" \in Keys(pr))) + 1]

\* The page the loop `for (const page of pages)` visits next.
NextPage(r) == pages[r][Len(pageResults[r]) + 1]

\* processAllPages visits the next page: processSinglePage builds the prompt
\* and callLLM issues the POST.
ProcessNextPage(r) ==
    /\ pc[r] = "converted"
    /\ Len(pageResults[r]) < Len(pages[r])
    /\ llmRequests' = [llmRequests EXCEPT ![r] = Append(@,
            [prompt |-> PagePrompt(NextPage(r), Len(pages[r]), document[r],
                            request[r].expectedSchema, request[r].metadata,
                            previousPagesContext[r], request[r].documentType),
             images |-> PageImages(NextPage(r))])]
    /\ pc' = [pc EXCEPT ![r] = "callLLM"]
    /\ UNCHANGED <<fsVars, document, request, rasterVars, pageResults,
                   previousPagesContext, llmReplies, llmResponse, result>>
    /\ UNCHANGED storeVars

\* The POST settles: processSinglePage returns the page's result (or throws),
\* processAllPages records it and extends the context.
LLMReply(r) ==
    /\ pc[r] = "callLLM"
    /\ \E http \in HttpOutcomes :
        LET outcome == processSinglePage(NextPage(r), http)
        IN /\ llmReplies' = [llmReplies EXCEPT ![r] = Append(@, callLLM(http))]
           /\ llmResponse' = [llmResponse EXCEPT ![r] = http]
           /\ IF outcome.threw
              THEN /\ result' = [result EXCEPT ![r] =
                          Threw(Lit("PDF extraction failed: ") \o outcome.error.message)]
                   /\ pc' = [pc EXCEPT ![r] = "done"]
                   /\ UNCHANGED <<pageResults, previousPagesContext>>
              ELSE /\ pageResults' = [pageResults EXCEPT ![r] = Append(@, outcome.value)]
                   /\ previousPagesContext' = [previousPagesContext EXCEPT ![r] =
                          PushContext(@, NextPage(r), outcome.value)]
                   /\ pc' = [pc EXCEPT ![r] = "converted"]
                   /\ UNCHANGED result
    /\ UNCHANGED <<fsVars, document, request, rasterVars, llmRequests>>
    /\ UNCHANGED storeVars

\* The loop has visited every page: extractFromPDF returns the combined
\* result.
CombinePageResults(r) ==
    /\ pc[r] = "converted"
    /\ Len(pageResults[r]) = Len(pages[r])
    /\ result' = [result EXCEPT ![r] =
            Returned(combinePageResults(pageResults[r], request[r].expectedSchema))]
    /\ pc' = [pc EXCEPT ![r] = "done"]
    /\ UNCHANGED <<fsVars, document, request, rasterVars, llmVars>>
    /\ UNCHANGED storeVars

\* combinePageResults, called directly, returns.
Merge(r) ==
    /\ pc[r] = "combinePageResults"
    /\ result' = [result EXCEPT ![r] =
            Returned(combinePageResults(pageResults[r], request[r].expectedSchema))]
    /\ pc' = [pc EXCEPT ![r] = "done"]
    /\ UNCHANGED <<fsVars, document, request, rasterVars, llmVars>>
    /\ UNCHANGED storeVars

\* ---------------------------------------------------- server: management API
Answer(m, status, endpoint) ==
    response' = [response EXCEPT ![m] = [status |-> status, endpoint |-> endpoint]]

\* A management request arrives. POST and PUT validate the body first and
\* answer 400 without touching anything else; every handler then awaits
\* readEndpoints().
ManagementRequest(m) ==
    /\ mpc[m] = "idle"
    /\ \E req \in ManagementRequests :
        /\ mreq' = [mreq EXCEPT ![m] = req]
        /\ IF req.op \in {"create", "update"} /\ ValidateEndpoint(req.body).error
           THEN /\ Answer(m, 400, <<>>)
                /\ mpc' = [mpc EXCEPT ![m] = "done"]
           ELSE /\ mpc' = [mpc EXCEPT ![m] = "readEndpoints"]
                /\ UNCHANGED response
    /\ UNCHANGED <<file, dynamicRouter, nextUuid, endpoints, toWrite, dynResponse>>
    /\ UNCHANGED extractionVars

\* readEndpoints() returns the list the file holds now, and the handler runs
\* up to its next await: GET answers; POST, PUT and DELETE build the list to
\* write from the list they read (PUT and DELETE answer 404 for an id that
\* is not in it) and call writeEndpoints.
ReadEndpoints(m) ==
    /\ mpc[m] = "readEndpoints"
    /\ endpoints' = [endpoints EXCEPT ![m] = file]
    /\ LET req == mreq[m]
           index == FindIndex(file, req.id)
           value == ValidateEndpoint(req.body).value
           filteredEndpoints == SelectSeq(file, LAMBDA ep : ep.id # req.id)
       IN CASE req.op = "get" ->
                 /\ IF index = 0 THEN Answer(m, 404, <<>>) ELSE Answer(m, 200, file[index])
                 /\ mpc' = [mpc EXCEPT ![m] = "done"]
                 /\ UNCHANGED <<toWrite, nextUuid>>
            [] req.op = "create" ->
                 /\ toWrite' = [toWrite EXCEPT ![m] =
                                    Append(file, NewEndpoint(value, Uuid(nextUuid), now))]
                 /\ nextUuid' = nextUuid + 1
                 /\ mpc' = [mpc EXCEPT ![m] = "writeEndpoints"]
                 /\ UNCHANGED response
            [] req.op = "update" ->
                 IF index = 0
                 THEN /\ Answer(m, 404, <<>>)
                      /\ mpc' = [mpc EXCEPT ![m] = "done"]
                      /\ UNCHANGED <<toWrite, nextUuid>>
                 ELSE /\ toWrite' = [toWrite EXCEPT ![m] =
                                [file EXCEPT ![index] = UpdatedEndpoint(value, req.id, file[index])]]
                      /\ mpc' = [mpc EXCEPT ![m] = "writeEndpoints"]
                      /\ UNCHANGED <<response, nextUuid>>
            [] req.op = "delete" ->
                 IF Len(filteredEndpoints) = Len(file)
                 THEN /\ Answer(m, 404, <<>>)
                      /\ mpc' = [mpc EXCEPT ![m] = "done"]
                      /\ UNCHANGED <<toWrite, nextUuid>>
                 ELSE /\ toWrite' = [toWrite EXCEPT ![m] = filteredEndpoints]
                      /\ mpc' = [mpc EXCEPT ![m] = "writeEndpoints"]
                      /\ UNCHANGED <<response, nextUuid>>
    /\ UNCHANGED <<file, dynamicRouter, mreq, dynResponse>>
    /\ UNCHANGED extractionVars

\* writeEndpoints(endpoints) replaces the file, and loadDynamicRoutes starts:
\* it points dynamicRouter at a new, empty Router and awaits readEndpoints().
WriteEndpoints(m) ==
    /\ mpc[m] = "writeEndpoints"
    /\ file' = toWrite[m]
    /\ dynamicRouter' = <<>>
    /\ mpc' = [mpc EXCEPT ![m] = "loadDynamicRoutes"]
    /\ UNCHANGED <<nextUuid, mreq, endpoints, toWrite, response, dynResponse>>
    /\ UNCHANGED extractionVars

\* The file read of loadDynamicRoutes: the content the file has now.
ReloadRead(m) ==
    /\ mpc[m] = "loadDynamicRoutes"
    /\ endpoints' = [endpoints EXCEPT ![m] = file]
    /\ mpc' = [mpc EXCEPT ![m] = "forEach"]
    /\ UNCHANGED <<file, dynamicRouter, nextUuid, mreq, toWrite, response, dynResponse>>
    /\ UNCHANGED extractionVars

\* readEndpoints() resolves in loadDynamicRoutes: every endpoint it read is
\* registered on the router dynamicRouter refers to at that moment, and the
\* handler answers 201 with the new endpoint, 200 with the updated one or 204.
ReloadRegister(m) ==
    /\ mpc[m] = "forEach"
    /\ dynamicRouter' = dynamicRouter \o RoutesOf(endpoints[m])
    /\ CASE mreq[m].op = "create" -> Answer(m, 201, toWrite[m][Len(toWrite[m])])
         [] mreq[m].op = "update" ->
                Answer(m, 200, toWrite[m][FindIndex(toWrite[m], mreq[m].id)])
         [] OTHER -> Answer(m, 204, <<>>)
    /\ mpc' = [mpc EXCEPT ![m] = "done"]
    /\ UNCHANGED <<file, nextUuid, mreq, endpoints, toWrite, dynResponse>>
    /\ UNCHANGED extractionVars

\* A request to a dynamic path: the middleware hands it to the router
\* dynamicRouter refers to now.
DynamicRequest ==
    /\ \E req \in DynamicRequests :
        LET res == Dispatch(dynamicRouter, req.method, req.path, req.body)
        IN dynResponse' = [status |-> res.status, data |-> res.data, request |-> req]
    /\ UNCHANGED <<file, dynamicRouter, nextUuid, mpc, mreq, endpoints, toWrite, response>>
    /\ UNCHANGED extractionVars

\* --------------------------------------------------------- specifications
\* One extraction request, from extractDocumentData to its result.
Next ==
    \/ ExtractDocumentData(1)
    \/ ExtractFromImageReply(1)
    \/ EnsureTempDirectory(1)
    \/ WriteTempPDFFile(1)
    \/ ExtractSinglePage(1)
    \/ CleanupUnlink(1)
    \/ CleanupReaddir(1)
    \/ CleanupUnlinkFile(1)
    \/ CleanupDone(1)
    \/ ExtractFromPDFCatch(1)
    \/ ProcessNextPage(1)
    \/ LLMReply(1)
    \/ CombinePageResults(1)

Spec == Init /\ [][Next]_vars

\* The same request when every pending promise settles: each await of the
\* call chain is on a file-system operation, a converter call or an HTTP
\* request with a timeout, so the step that is enabled is eventually taken.
SpecFair == Spec /\ WF_vars(Next)

\* Concurrent calls of convertPDFToImages on the shared scratch directory.
NextScratch ==
    \/ Tick
    \/ \E r \in Requests :
        \/ ConvertPDFToImages(r)
        \/ EnsureTempDirectory(r)
        \/ WriteTempPDFFile(r)
        \/ ExtractSinglePage(r)
        \/ CleanupUnlink(r)
        \/ CleanupReaddir(r)
        \/ CleanupUnlinkFile(r)
        \/ CleanupDone(r)

SpecScratch == Init /\ [][NextScratch]_vars

\* combinePageResults as a function of its arguments.
NextMerge == Merge(1)

SpecMerge == InitMerge /\ [][NextMerge]_vars

\* The server: management requests of several clients, each handler
\* interleaving with the others at its awaits, and requests to dynamic paths.
NextStore ==
    \/ DynamicRequest
    \/ \E m \in Clients :
        \/ ManagementRequest(m)
        \/ ReadEndpoints(m)
        \/ WriteEndpoints(m)
        \/ ReloadRead(m)
        \/ ReloadRegister(m)

SpecStore == Init /\ [][NextStore]_vars

\* ------------------------------------------------------------------ claims
\* The requests that take the multi-page PDF path.
PdfRequests == {r \in Requests : isPDF(document[r].filetype)}

\* The reply to request i was answer text that is not valid JSON.
ReplyNotJSON(r, i) ==
    /\ ~llmReplies[r][i].threw
    /\ JSONParse(llmReplies[r][i].value.s).threw

\* The reply to request i was answer text that parsed as JSON.
ReplyParsed(r, i) ==
    /\ ~llmReplies[r][i].threw
    /\ ~JSONParse(llmReplies[r][i].value.s).threw

\* C1: in the PDF path the LLM requests are issued one per page, in page
\* order: request i carries exactly the image of page i (page number i), a
\* request is issued only when the results of all earlier requests have been
\* recorded, and an extraction of N rasterized pages ends after exactly N
\* requests.
C1_OneRequestPerPageInOrder ==
    \A r \in PdfRequests :
        /\ Len(llmRequests[r]) <= Len(pages[r])
        /\ \A i \in 1..Len(llmRequests[r]) :
            /\ pages[r][i].pageNumber = i
            /\ llmRequests[r][i].images = <<PageImage(i)>>
        /\ Len(llmRequests[r]) =
                Len(pageResults[r]) + (IF pc[r] = "callLLM" THEN 1 ELSE 0)
        /\ (pc[r] = "done" /\ converted[r].state = "returned")
                => Len(llmRequests[r]) = Len(pages[r])

\* C1 witness: a three-page extraction has ended after three requests, the
\* first of which failed.
C1_Witness ==
    /\ pc[1] = "done"
    /\ Len(pages[1]) = 3
    /\ Len(llmRequests[1]) = 3
    /\ llmReplies[1][1].threw

\* C2: in the multi-page loop a reply that is not valid JSON yields a
\* PageResult with `error` set and nothing is thrown; later pages are still
\* processed, so the loop ends with one PageResult per page,
\* pageResults[i].page = i + 1 (0-based i), and all of them go into the merge.
C2_ParseFailureIsolated ==
    \A r \in PdfRequests :
        /\ Len(llmReplies[r]) = Len(pageResults[r])
        /\ \A i \in 1..Len(pageResults[r]) :
            /\ Get(pageResults[r][i], "page") = JNum(i)
            /\ ReplyNotJSON(r, i) => Truthy(Get(pageResults[r][i], "error"))
        /\ (pc[r] = "done" /\ converted[r].state = "returned") =>
            /\ Len(pageResults[r]) = Len(pages[r])
            /\ result[r] = Returned(combinePageResults(pageResults[r],
                                        request[r].expectedSchema))
            /\ Len(pageResults[r]) >= 2 =>
                    Get(result[r].value, "_pageResults") = JArr(pageResults[r])

\* C2 witness: three pages, the reply for page 2 was not JSON, page 3 still
\* yielded data, and the extraction returned.
C2_Witness ==
    /\ pc[1] = "done"
    /\ Len(pageResults[1]) = 3
    /\ ReplyNotJSON(1, 2)
    /\ Truthy(Get(pageResults[1][2], "error"))
    /\ Truthy(Get(pageResults[1][3], "data"))
    /\ result[1].state = "returned"

\* C3: when page k of n (n > 1) is processed, the prompt sent to the LLM
\* states the page's position (page k of n) and contains the summary of the
\* data of every earlier page that produced data.
C3_PromptStatesPositionAndContext ==
    \A r \in PdfRequests : \A k \in 1..Len(llmRequests[r]) :
        Len(pages[r]) > 1 =>
            /\ Includes(llmRequests[r][k].prompt,
                        PagePositionText(k, Len(pages[r])))
            /\ \A j \in 1..(k - 1) :
                Truthy(Get(pageResults[r][j], "data")) =>
                    Includes(llmRequests[r][k].prompt,
                             ContextEntry(pages[r][j], pageResults[r][j]))

\* The values of key k in the data of the pages that have data, in page
\* order, as far as they are present, non-null and not "".
DataValues(prs, key) ==
    SelectSeq([i \in 1..Len(prs) |-> Get(Get(prs[i], "data"), key)], IsCollected)

\* C4: in a merge of two or more pages a page with `error` set contributes
\* no value to any key of the merged output: for every key of the expected
\* schema the merged value is built from the values of the pages' data only.
C4_ErrorPagesContributeNothing ==
    \A r \in PdfRequests :
        (pc[r] = "done" /\ result[r].state = "returned" /\ Len(pageResults[r]) >= 2) =>
            \A key \in Keys(request[r].expectedSchema) :
                Get(result[r].value, key) =
                    MergeValue(DataValues(pageResults[r], key),
                               Get(request[r].expectedSchema, key))

\* C5: in the PDF path a transport failure or an empty answer on the first
\* page aborts the extraction with a thrown error, while a reply that is not
\* valid JSON is captured in the page's PageResult and is never fatal.
C5_FirstPageLLMFailureIsFatal ==
    \A r \in PdfRequests :
        /\ (pc[r] = "done" /\ Len(llmReplies[r]) >= 1 /\ llmReplies[r][1].threw)
                => result[r].state = "threw"
        /\ \A i \in 1..Len(pageResults[r]) :
                ReplyNotJSON(r, i) => Truthy(Get(pageResults[r][i], "error"))
        /\ (pc[r] = "done" /\ converted[r].state = "returned"
                /\ \A i \in 1..Len(llmReplies[r]) : ~llmReplies[r][i].threw)
                => result[r].state = "returned"

\* The context entries of the pages among 1..n whose reply parsed, in page
\* order.
RECURSIVE ParsedPagesContext(_, _)
ParsedPagesContext(r, n) ==
    IF n = 0 THEN <<>>
    ELSE IF ReplyParsed(r, n)
    THEN Append(ParsedPagesContext(r, n - 1),
                Lit("Page ") \o NumToString(n) \o Lit(": ")
                    \o JSONStringify(JSONParse(llmReplies[r][n].value.s).value))
    ELSE ParsedPagesContext(r, n - 1)

\* C6: after k pages have been processed the running context holds, in page
\* order, exactly one entry "Page <n>: <pretty-printed JSON of the page's
\* data>" for every page among 1..k whose reply parsed successfully, and
\* nothing for the others.
C6_ContextHoldsEveryParsedPage ==
    \A r \in PdfRequests :
        previousPagesContext[r] = ParsedPagesContext(r, Len(llmReplies[r]))

\* C7: the PageResult of a page whose reply is not valid JSON has `error`
\* set and its `raw` holds the reply text the LLM returned.
C7_RawHoldsReplyText ==
    \A r \in PdfRequests : \A i \in 1..Len(pageResults[r]) :
        ReplyNotJSON(r, i) =>
            /\ Truthy(Get(pageResults[r][i], "error"))
            /\ Get(pageResults[r][i], "raw") = llmReplies[r][i].value

\* C8: a source that does not decode as a PDF makes rasterization fail and
\* the extraction abort; rasterization never returns (zero pages) for it, and
\* the extraction never returns the expected schema as its result.
C8_CorruptPDFAborts ==
    \A r \in PdfRequests :
        document[r].filedata.corrupt =>
            /\ converted[r].state # "returned"
            /\ pc[r] = "done" => result[r].state = "threw"

\* The requests whose rasterization holds scratch names: the temp path is
\* chosen and cleanup has not finished.
Rasterizing(r) ==
    pc[r] \in {"writeTempPDFFile", "extractSinglePage", "cleanupUnlink",
               "cleanupReaddir", "cleanupUnlinkFiles"}

\* No two requests in flight use the same scratch file name.
ScratchNamesDistinct ==
    \A r, q \in Requests :
        (r # q /\ Rasterizing(r) /\ Rasterizing(q)) =>
            tempPdfPath[r] # tempPdfPath[q]

\* A step never removes the temp file of a request that is still extracting
\* pages (such a request removes nothing itself).
NoForeignDelete ==
    \A q \in Requests :
        (pc[q] = "extractSinglePage" /\ tempPdfPath[q] \in dir)
            => tempPdfPath[q] \in dir'

\* C9: concurrent requests do not interfere through the scratch directory:
\* two requests in flight never use the same scratch file name, and the
\* cleanup of one never deletes a scratch file of another that is still
\* rasterizing.
C9_ScratchIsolation == []ScratchNamesDistinct /\ [][NoForeignDelete]_vars

\* C10: when convertPDFToImages has returned or thrown, every scratch file it
\* created is deleted, and so are the leftovers of earlier runs.
C10_ScratchDeletedOnEveryExit ==
    \A r \in Requests :
        converted[r].state # "pending" =>
            dir \cap (created[r] \cup Leftovers) = {}

\* The number of the first page the converter does not render.
FirstUnrendered(filedata) ==
    IF filedata.corrupt THEN 1
    ELSE IF filedata.badPage \in 1..filedata.numPages THEN filedata.badPage
    ELSE filedata.numPages + 1

\* The pages 1..n as extractSinglePage returns them.
PagesUpTo(n) == [p \in 1..n |-> [pageNumber |-> p, imageBase64 |-> PageImage(p)]]

\* convertPDFToImages has returned exactly the pages before the first
\* unrendered one, numbered 1, 2, ... in increasing order.
ReturnedRenderedPrefix(r) ==
    converted[r] = Returned(PagesUpTo(FirstUnrendered(document[r].filedata) - 1))

\* C11: once the temporary PDF is written, rasterization probes the pages
\* 1, 2, 3, ... in order, never past the first page that fails to render,
\* and terminates by returning exactly the pages rendered before that page,
\* numbered 1..k in increasing order (all N pages of a PDF whose pages all
\* render).
C11_RasterizeReturnsRenderedPrefix ==
    /\ [](pc[1] = "extractSinglePage" =>
            /\ currentPageNumber[1] <= FirstUnrendered(document[1].filedata)
            /\ pages[1] = PagesUpTo(currentPageNumber[1] - 1))
    /\ [](converted[1].state = "returned" => ReturnedRenderedPrefix(1))
    /\ (pc[1] = "extractSinglePage") ~> ReturnedRenderedPrefix(1)

\* A PDF whose second page does not render and whose third would: the call
\* has returned page 1 alone. And a PDF whose pages all render.
C11_Witness ==
    /\ document[1].filedata.numPages = MaxPages
    /\ document[1].filedata.badPage = 2
    /\ converted[1].state = "returned"
    /\ Len(converted[1].value) = 1

\* A merge of two or more pages has returned.
Merged(r) == pc[r] = "done" /\ result[r].state = "returned" /\ Len(pageResults[r]) >= 2

\* The elements a collected value gives to an array-shaped key: those of an
\* array, or the value itself.
Piece(v) == IF v.t = "array" THEN v.a ELSE <<v>>

\* The number of elements the first n values give.
RECURSIVE PieceOffset(_, _)
PieceOffset(values, n) ==
    IF n = 0 THEN 0 ELSE PieceOffset(values, n - 1) + Len(Piece(values[n]))

\* out is the concatenation of the values in order, each array flattened
\* exactly one level and each other value kept as one element.
IsOneLevelConcat(out, values) ==
    /\ out.t = "array"
    /\ Len(out.a) = PieceOffset(values, Len(values))
    /\ \A i \in 1..Len(values) : \A j \in 1..Len(Piece(values[i])) :
            out.a[PieceOffset(values, i - 1) + j] = Piece(values[i])[j]

\* C12: in a merge of two or more pages the values collected for a key k of
\* the expected schema are exactly the values of k in the pages' data that
\* are present, non-null and not "", in page order (observed where the
\* output shows them one by one: under an array-shaped k); and when no
\* page's data has such a value the output for k is the schema's own value.
C12_CollectedFromPageData ==
    Merged(1) =>
        \A k \in Keys(request[1].expectedSchema) :
            LET values == DataValues(pageResults[1], k)
                expected == Get(request[1].expectedSchema, k)
                out == Get(result[1].value, k)
            IN /\ values = <<>> => out = expected
               /\ (values # <<>> /\ expected.t = "array") => IsOneLevelConcat(out, values)

\* C13: in a merge of two or more pages, for a key k whose expected value is
\* an array and for which values were collected, the output is the
\* concatenation of the collected values in page order, arrays flattened
\* exactly one level, non-array values kept as single elements.
C13_ArrayFlattenedOneLevel ==
    Merged(1) =>
        \A k \in Keys(request[1].expectedSchema) :
            LET values == CollectValues(pageResults[1], k)
            IN (values # <<>> /\ Get(request[1].expectedSchema, k).t = "array")
                    => IsOneLevelConcat(Get(result[1].value, k), values)

\* C13 witness: ["x"], [["y"], "z"] and the non-array "solo" were collected
\* and merged into ["x", ["y"], "z", "solo"].
C13_Witness ==
    /\ Merged(1)
    /\ CollectValues(pageResults[1], "items") =
            <<Get(DataFirst, "items"), Get(DataSecond, "items"), Get(DataSparse, "items")>>
    /\ Get(result[1].value, "items") =
            JArr(<<JStr(Lit("x")), JArr(<<JStr(Lit("y"))>>), JStr(Lit("z")),
                   JStr(Lit("solo"))>>)

RECURSIVE SpaceJoined(_)
SpaceJoined(values) ==
    IF Len(values) = 1 THEN StringOf(values[1])
    ELSE SpaceJoined(SubSeq(values, 1, Len(values) - 1))
            \o Lit(" ") \o StringOf(values[Len(values)])

C16_PrimitiveTakesFirstValue ==
    Merged(1) =>
        \A k \in Keys(request[1].expectedSchema) :
            LET values == CollectValues(pageResults[1], k)
            IN (values # <<>>
                    /\ Get(request[1].expectedSchema, k).t \in
                            {"string", "number", "boolean", "null"})
                    => Get(result[1].value, k) = values[1]

C19_SinglePagePassthrough ==
    (pc[1] = "done" /\ result[1].state = "returned" /\ Len(pageResults[1]) = 1) =>
        result[1].value =
            IF "data" \in Keys(pageResults[1][1])
            THEN Get(pageResults[1][1], "data")
            ELSE pageResults[1][1]

\* C20: a merge of the empty list returns the expected schema unchanged,
\* without _pageResults or _totalPages.
C20_EmptyListReturnsSchema ==
    (pc[1] = "done" /\ result[1].state = "returned" /\ Len(pageResults[1]) = 0) =>
        result[1].value = request[1].expectedSchema

\* C20 witness: the merge of no pages under the schema with every shape.
C20_Witness ==
    /\ pc[1] = "done"
    /\ pageResults[1] = <<>>
    /\ request[1].expectedSchema = SchemaShapes
    /\ result[1] = Returned(SchemaShapes)

\* A response field is populated: it is a string and not the empty one.
Populated(v) == v.t = "string" /\ v.s # <<>>

\* C21: for a POST that is answered with a body, the LLM client returns the
\* text of `thinking` when that field is populated, else the text of
\* `response` when that one is populated, and fails with an error when
\* neither is; what it returns as a success is never an empty answer.
C21_AnswerFromPopulatedField ==
    \A r \in Requests :
        llmResponse[r] # NoResponse =>
            LET http == llmResponse[r]
                reply == llmReplies[r][Len(llmReplies[r])]
            IN /\ http.kind = "body" =>
                    /\ Populated(http.thinking)
                            => reply = [threw |-> FALSE, value |-> http.thinking]
                    /\ (~Populated(http.thinking) /\ Populated(http.response))
                            => reply = [threw |-> FALSE, value |-> http.response]
                    /\ (~Populated(http.thinking) /\ ~Populated(http.response))
                            => reply.threw
               /\ http.kind = "transport" => reply.threw
               /\ ~reply.threw => Populated(reply.value)

\* C21 witness: the body of the second page's POST had both fields populated
\* and gave `thinking`, after a body with the empty string in both fields
\* had given an error.
C21_Witness ==
    /\ Len(llmReplies[1]) = 2
    /\ llmReplies[1][1].threw
    /\ llmResponse[1].kind = "body"
    /\ Populated(llmResponse[1].thinking) /\ Populated(llmResponse[1].response)
    /\ llmReplies[1][2].value = llmResponse[1].thinking

\* C22: an extraction of a non-PDF document issues exactly one LLM request,
\* with the document's file data as the image; a reply that parses as JSON
\* is returned as parsed; a reply that is not valid JSON gives the returned
\* object {error, raw} with raw the reply text; a failed request (transport
\* failure, no populated answer field) is thrown to the caller.
C22_SingleImagePath ==
    \A r \in Requests \ PdfRequests :
        /\ pc[r] = "extractFromImage" =>
                /\ Len(llmRequests[r]) = 1 /\ Len(llmReplies[r]) = 0
                /\ llmRequests[r][1].images = ImageArgument(document[r])
        /\ pc[r] = "done" =>
            /\ Len(llmRequests[r]) = 1 /\ Len(llmReplies[r]) = 1
            /\ ReplyParsed(r, 1) =>
                    result[r] = Returned(JSONParse(llmReplies[r][1].value.s).value)
            /\ ReplyNotJSON(r, 1) =>
                    /\ result[r].state = "returned"
                    /\ Keys(result[r].value) = {"error", "raw"}
                    /\ Populated(Get(result[r].value, "error"))
                    /\ Get(result[r].value, "raw") = llmReplies[r][1].value
            /\ llmReplies[r][1].threw => result[r].state = "threw"

\* C22 witness: the reply to an image was not JSON and came back as raw.
C22_Witness ==
    /\ document[1].filetype = Lit("image/png")
    /\ pc[1] = "done"
    /\ ReplyNotJSON(1, 1)
    /\ Get(result[1].value, "raw") = JStr(NotJSON)

\* Spellings of "pdf" and "application/pdf" in upper, lower and mixed case.
PdfSpellings ==
    {Lit("pdf"), Lit("PDF"), Lit("Pdf"), Lit("application/pdf"),
     Lit("APPLICATION/PDF"), Lit("Application/Pdf")}

\* The request is on, or has ended on, the multi-page PDF path.
OnPdfPath(r) ==
    \/ pc[r] \in {"ensureTempDirectory", "writeTempPDFFile", "extractSinglePage",
                  "cleanupUnlink", "cleanupReaddir", "cleanupUnlinkFiles",
                  "convertThrew", "converted", "callLLM"}
    \/ pc[r] = "done" /\ converted[r] # NoResult

\* The request is on, or has ended on, the single-image path.
OnImagePath(r) ==
    \/ pc[r] = "extractFromImage"
    \/ pc[r] = "done" /\ converted[r] = NoResult /\ Len(llmRequests[r]) = 1

PromptSchema(prompt) ==
    prompt[CHOOSE i \in 1..Len(prompt) : "json" \in DOMAIN prompt[i]].json

\* The key names that occur in the JSON text of a value, at any depth.
RECURSIVE KeyNamesIn(_)
KeyNamesIn(v) ==
    IF v.t = "object"
    THEN Keys(v) \cup UNION {KeyNamesIn(v.o[k]) : k \in Keys(v)}
    ELSE IF v.t = "array" THEN UNION {KeyNamesIn(v.a[i]) : i \in 1..Len(v.a)}
    ELSE {}

\* The strings that occur as values in the JSON text of a value.
RECURSIVE TextsIn(_)
TextsIn(v) ==
    IF v.t = "string" THEN {v.s}
    ELSE IF v.t = "object" THEN UNION {TextsIn(v.o[k]) : k \in Keys(v)}
    ELSE IF v.t = "array" THEN UNION {TextsIn(v.a[i]) : i \in 1..Len(v.a)}
    ELSE {}

\* What the prompt has to carry for a metadata entry: the choices of a
\* multiple_choice field, the format instruction of a date, datetime or time
\* field; nothing for other entries.
RequiredText(meta) ==
    LET type == Get(meta, "type")
        lower == IF type.t = "string" THEN ToLowerCase(type.s) ELSE <<>>
        choices == Get(meta, "choices")
    IN IF lower = Lit("multiple_choice") /\ choices.t = "array"
       THEN Join([i \in 1..Len(choices.a) |-> choices.a[i].s], Lit(", "))
       ELSE IF lower \in {Lit("date"), Lit("datetime"), Lit("time")}
       THEN FormatSuffix(meta, TRUE)
       ELSE <<>>

\* C24: the prompt of every LLM request carries the JSON text of a schema in
\* which every key name of the expected schema occurs and, for every field
\* path of the metadata (a top-level field or a child path), the choices
\* list of a multiple_choice field or the format instruction of a date,
\* datetime or time field.
C24_PromptCarriesKeysAndFormats ==
    \A r \in Requests : \A i \in 1..Len(llmRequests[r]) :
        LET shown == PromptSchema(llmRequests[r][i].prompt)
        IN /\ KeyNamesIn(request[r].expectedSchema) \subseteq KeyNamesIn(shown)
           /\ \A path \in Keys(request[r].metadata) :
                LET required == RequiredText(Get(request[r].metadata, path))
                IN required # <<>> =>
                        \E text \in TextsIn(shown) : Includes(text, required)

\* C30: in a merge of two or more pages, for a key k whose expected value is
\* a scalar (string, number, boolean or null) and for which exactly one page
\* contributes a value v, the output for k is v itself, type and value
\* unchanged.
C30_SingleContributionUnchanged ==
    Merged(1) =>
        \A k \in Keys(request[1].expectedSchema) :
            LET values == CollectValues(pageResults[1], k)
            IN (Len(values) = 1
                    /\ Get(request[1].expectedSchema, k).t \in
                            {"string", "number", "boolean", "null"})
                    => Get(result[1].value, k) = values[1]

\* The endpoints the store holds.
Stored == {file[i] : i \in 1..Len(file)}

\* The management requests that have arrived and are not answered yet.
InFlight == {m \in Clients : mpc[m] \notin {"idle", "done"}}

\* C25: under any interleaving of management requests, an endpoint whose
\* create was answered 201 is in the stored list until a delete for its id
\* is answered 204, and an update answered 200 is in the stored list unless
\* another update or delete of the same id has arrived: no acknowledged
\* write is lost to another request's read-modify-write of the file.
C25_NoAcknowledgedWriteLost ==
    \A m \in Clients :
        /\ response[m].status = 201 =>
              \/ response[m].endpoint \in Stored
              \/ \E d \in Clients : /\ mreq[d].op = "delete"
                                     /\ mreq[d].id = response[m].endpoint.id
                                     /\ response[d].status = 204
        /\ (response[m].status = 200 /\ mreq[m].op = "update") =>
              \/ response[m].endpoint \in Stored
              \/ \E d \in Clients \ {m} : /\ mreq[d].op \in {"update", "delete"}
                                           /\ mreq[d].id = mreq[m].id
                                           /\ mpc[d] # "idle"

\* No update or delete of the seed endpoint has arrived: the store holds it,
\* unchanged, before and after every write.
SeedUntouched ==
    \A m \in Clients : mreq[m].op \in {"update", "delete"} => mreq[m].id # SeedEndpoint.id

\* C26: a request to a dynamic endpoint that is stored before and after a
\* management write is answered by its handler also while the routes are
\* being reloaded: the live route table is never empty or partial while the
\* store holds the endpoint.
C26_StoredEndpointAlwaysRouted ==
    (/\ SeedUntouched
     /\ dynResponse.status # 0
     /\ dynResponse.request.method = SeedEndpoint.method
     /\ dynResponse.request.path = SeedEndpoint.path)
    => /\ SeedEndpoint \in Stored
       /\ [status |-> dynResponse.status, data |-> dynResponse.data]
            = RouteHandler(RoutesOf(<<SeedEndpoint>>)[1], dynResponse.request.body)

\* The (method, path) pairs a list of routes answers.
RoutePairs(routes) == {<<routes[i].method, routes[i].routePath>> : i \in 1..Len(routes)}

\* C27: once a create, update or delete has been answered with success and
\* no management request is in flight, the route table has a route for
\* exactly the (method, path) pairs of the stored endpoints, and the route
\* that answers a pair answers as a stored endpoint with that pair does
\* (never as a deleted or pre-update definition).
C27_RoutesMatchStoreAtRest ==
    (/\ InFlight = {}
     /\ \E m \in Clients : response[m].status \in {200, 201, 204} /\ mreq[m].op # "get")
    => /\ RoutePairs(dynamicRouter) = RoutePairs(RoutesOf(file))
       /\ \A i \in 1..Len(dynamicRouter) :
            (\A j \in 1..(i - 1) :
                <<dynamicRouter[j].method, dynamicRouter[j].routePath>>
                    # <<dynamicRouter[i].method, dynamicRouter[i].routePath>>)
            => dynamicRouter[i].endpoint \in Stored

\* The step in which the update of client m replaces the stored list.
UpdateWrites(m) == mreq[m].op = "update" /\ mpc[m] = "writeEndpoints" /\ mpc'[m] # mpc[m]

\* C28: a step that answers a management request with 400 or 404 leaves the
\* stored list and the route table as they were, and the write of an update
\* changes only the addressed endpoint of the stored list, keeping its id
\* and createdAt.
C28_FailuresAndUpdateFrame ==
    [][\A m \in Clients :
        /\ (response'[m] # response[m] /\ response'[m].status \in {400, 404})
              => (file' = file /\ dynamicRouter' = dynamicRouter)
        /\ UpdateWrites(m)
              => /\ Len(file') = Len(file)
                 /\ \A i \in 1..Len(file) :
                      IF file[i].id = mreq[m].id
                      THEN /\ file'[i].id = file[i].id
                           /\ file'[i].createdAt = file[i].createdAt
                      ELSE file'[i] = file[i]]_vars

\* C29: a filetype that isPDF classifies as a PDF is accepted by the body
\* validation of non-GET dynamic endpoints: a request whose body is
\* otherwise valid is never answered 400 because of a PDF filetype.
C29_PdfFiletypeAccepted ==
    (/\ dynResponse.status # 0
     /\ dynResponse.request.body.filetype.t = "string"
     /\ isPDF(dynResponse.request.body.filetype.s)
     /\ ~RequestBodyError([dynResponse.request.body EXCEPT !.filetype = JStr(Lit("pdf"))]))
    => dynResponse.status # 400

============================================================================
